---- MODULE Spec2Model ----
(***************************************************************************)
(* Model of the anomaly/matching primitives of accounting-reconciliation   *)
(* (src/anomaly_detection.py) and of the call sites that use them.         *)
(*                                                                         *)
(* A DataFrame is a record                                                 *)
(*   [columns : set of column names,                                       *)
(*    index   : sequence of row labels (RangeIndex 0..n-1 from the loaders)*)
(*    data    : sequence of rows, a row being a function column -> cell]   *)
(* A cell is <<v>> for a value v and <<>> for a missing value (NaN/None).  *)
(***************************************************************************)
EXTENDS Integers, Sequences, FiniteSets, TLC

VARIABLES df1, df2, call, error, ret

vars == <<df1, df2, call, error, ret>>

(***************************************************************************)
(* Bounds of the model.                                                    *)
(***************************************************************************)
MaxRows == 2

(***************************************************************************)
(* Cells, rows and tables.                                                 *)
(***************************************************************************)
NaN == <<>>

Val(v) == <<v>>

IsNull(c) == c = NaN

EmptyDataFrame == [columns |-> {}, index |-> <<>>, data |-> <<>>]

RangeIndex(n) == [i \in 1..n |-> i - 1]

DataFrameOf(cols, rows) ==
    [columns |-> cols, index |-> RangeIndex(Len(rows)), data |-> rows]

Empty(df) == df.columns = {} \/ Len(df.index) = 0

KeyColumns == {"txn_date", "txn_amount", "txn_description"}

SourceColumn == "_source"

(***************************************************************************)
(* Input universe: the tables the loaders and the tests hand to the        *)
(* primitives.                                                             *)
(***************************************************************************)
BankRow(d, a, s) ==
    [txn_date |-> Val(d), txn_amount |-> Val(a), txn_description |-> Val(s)]

BankRows ==
    { BankRow("2024-02-15", 1000, "Deposit"),
      BankRow("2024-02-20", 1000, "Deposit"),
      BankRow("2024-02-15", -500, "Deposit"),
      BankRow("2024-02-15", 1000, "Check #123") }

NoDescriptionRows ==
    { [txn_date |-> Val("2024-02-15"), txn_amount |-> Val(1000)],
      [txn_date |-> Val("2024-02-20"), txn_amount |-> Val(1000)] }

InvalidRows == { [invalid_col |-> Val(1)], [invalid_col |-> Val(2)] }

InvoiceRows ==
    { [invoice_id |-> Val("INV-1"), amount |-> Val(1000)],
      [invoice_id |-> Val("INV-1"), amount |-> Val(-500)] }

SeqsUpTo(S, n) == UNION { [1..k -> S] : k \in 0..n }

TablesOver(cols, rows) == { DataFrameOf(cols, d) : d \in SeqsUpTo(rows, MaxRows) }

Tables ==
    {EmptyDataFrame}
    \cup TablesOver(KeyColumns, BankRows)
    \cup TablesOver({"txn_date", "txn_amount"}, NoDescriptionRows)
    \cup TablesOver({"invalid_col"}, InvalidRows)
    \cup TablesOver({"invoice_id", "amount"}, InvoiceRows)

(***************************************************************************)
(* pandas operations used by the primitives.                               *)
(***************************************************************************)
Positions(df) == 1..Len(df.index)

\* Cell of row i in column c; a column the row does not have reads as NaN.
Cell(row, c) == IF c \in DOMAIN row THEN row[c] ELSE NaN

\* Variant of SelectSeq2 that collects the kept elements last to first.
RECURSIVE SelectSeq2Reversed(_, _, _)
SelectSeq2Reversed(s, mask, i) ==
    IF i > Len(s) THEN <<>>
    ELSE SelectSeq2Reversed(s, mask, i + 1) \o (IF mask[i] THEN <<s[i]>> ELSE <<>>)

RECURSIVE SelectSeq2(_, _, _)
SelectSeq2(s, mask, i) ==
    IF i > Len(s) THEN <<>>
    ELSE (IF mask[i] THEN <<s[i]>> ELSE <<>>) \o SelectSeq2(s, mask, i + 1)

\* df[mask]: boolean indexing keeps the rows whose mask is True, in order,
\* with their labels and all columns.
BoolIndex(df, mask) ==
    [columns |-> df.columns,
     index   |-> SelectSeq2(df.index, mask, 1),
     data    |-> SelectSeq2(df.data, mask, 1)]

CopyAlias(heap, ref, new) == [ref |-> ref, heap |-> heap]

\* df.copy(): a new object with the same contents.
Copy(heap, ref, new) ==
    [ref |-> new, heap |-> [n \in DOMAIN heap \cup {new} |->
                               IF n = new THEN heap[ref] ELSE heap[n]]]

\* df[col] = value: in-place column assignment on the object ref names.
SetItem(heap, ref, col, value) ==
    [heap EXCEPT ![ref] =
        [columns |-> @.columns \cup {col},
         index   |-> @.index,
         data    |-> [i \in 1..Len(@.data) |->
                        [c \in DOMAIN @.data[i] \cup {col} |->
                            IF c = col THEN Val(value) ELSE @.data[i][c]]]]]

\* pd.concat([a, b]): rows of a then rows of b, labels kept, columns united,
\* cells of a column a frame lacks filled with NaN.
Concat(a, b) ==
    LET cols == a.columns \cup b.columns
        fill(row) == [c \in cols |-> Cell(row, c)]
    IN [columns |-> cols,
        index   |-> a.index \o b.index,
        data    |-> [i \in 1..(Len(a.data) + Len(b.data)) |->
                        IF i <= Len(a.data) THEN fill(a.data[i])
                        ELSE fill(b.data[i - Len(a.data)])]]

SameKey(r1, r2, subset) == \A c \in subset : Cell(r1, c) = Cell(r2, c)

DuplicatedKeepFirst(df, subset) ==
    IF ~(subset \subseteq df.columns) THEN [error |-> "KeyError", mask |-> <<>>]
    ELSE [error |-> "none",
          mask  |-> [i \in Positions(df) |->
                       \E j \in Positions(df) :
                           j < i /\ SameKey(df.data[i], df.data[j], subset)]]

\* df.duplicated(subset=..., keep=False): KeyError when a subset column is
\* absent, otherwise True for every row whose key occurs in another row.
Duplicated(df, subset) ==
    IF ~(subset \subseteq df.columns) THEN [error |-> "KeyError", mask |-> <<>>]
    ELSE [error |-> "none",
          mask  |-> [i \in Positions(df) |->
                       \E j \in Positions(df) :
                           j # i /\ SameKey(df.data[i], df.data[j], subset)]]

Labels(df) == { df.index[i] : i \in Positions(df) }

Isin(df, labels) == [i \in Positions(df) |-> df.index[i] \in labels]

\* ~df.index.isin(labels)
NotIsin(df, labels) == [i \in Positions(df) |-> df.index[i] \notin labels]

Return(tables, heap) == [error |-> "none", ret |-> tables, heap |-> heap]

Raise(e, heap) == [error |-> e, ret |-> <<>>, heap |-> heap]

(***************************************************************************)
(* find_unmatched_entries(df1, df2)                                        *)
(***************************************************************************)
BothEmpty(a, b) == Empty(a) /\ Empty(b)

\* if df1.empty or df2.empty
EitherEmpty(a, b) == Empty(a) \/ Empty(b)

find_unmatched_entries(a, b) ==
    LET h0 == [df1 |-> a, df2 |-> b]
    IN IF EitherEmpty(a, b)
       THEN Return(<<EmptyDataFrame, EmptyDataFrame>>, h0)
       ELSE LET c1 == Copy(h0, "df1", "df1_copy")
                c2 == Copy(c1.heap, "df2", "df2_copy")
                h3 == SetItem(c2.heap, c1.ref, SourceColumn, "df1")
                h4 == SetItem(h3, c2.ref, SourceColumn, "df2")
                df1_copy == h4[c1.ref]
                df2_copy == h4[c2.ref]
                combined == Concat(df1_copy, df2_copy)
                duplicates == Duplicated(combined, KeyColumns)
            IN IF duplicates.error # "none"
               THEN Raise(duplicates.error, h4)
               ELSE LET labels == Labels(BoolIndex(combined, duplicates.mask))
                        only_in_df1 == BoolIndex(df1_copy, NotIsin(df1_copy, labels))
                        only_in_df2 == BoolIndex(df2_copy, NotIsin(df2_copy, labels))
                    IN Return(<<only_in_df1, only_in_df2>>, h4)

(***************************************************************************)
(* detect_duplicates(df)                                                   *)
(***************************************************************************)
detect_duplicates(df) ==
    LET h0 == [df |-> df]
    IN IF Empty(df)
       THEN Return(<<EmptyDataFrame>>, h0)
       ELSE LET duplicates == Duplicated(df, KeyColumns)
            IN IF duplicates.error # "none"
               THEN Raise(duplicates.error, h0)
               ELSE Return(<<BoolIndex(df, duplicates.mask)>>, h0)

(***************************************************************************)
(* detect_outliers_zscore(df, amount_column, threshold)                    *)
(***************************************************************************)
\* A threshold is the rational num/den; the default is 3.0.
DefaultThreshold == [num |-> 3, den |-> 1]

\* Positions of the rows whose amount is present (mean and std skip NaN).
Present(df, col) == { i \in Positions(df) : ~IsNull(df.data[i][col]) }

RECURSIVE SumOver(_, _, _)
SumOver(df, col, S) ==
    IF S = {} THEN 0
    ELSE LET i == CHOOSE x \in S : TRUE
         IN df.data[i][col][1] + SumOver(df, col, S \ {i})

RECURSIVE SumSqOver(_, _, _)
SumSqOver(df, col, S) ==
    IF S = {} THEN 0
    ELSE LET i == CHOOSE x \in S : TRUE
         IN df.data[i][col][1] * df.data[i][col][1] + SumSqOver(df, col, S \ {i})

\* Variants of the z-score comparison used to test the properties below:
\* ">=" for ">", "not (z <= threshold)" for "z > threshold" (True for a NaN
\* z-score of a present value), and a count of all rows for the count of
\* the present values.
ZscoreMaskGe(df, col, threshold) ==
    LET P == Present(df, col)
        n == Cardinality(P)
        sum == SumOver(df, col, P)
        var == n * SumSqOver(df, col, P) - sum * sum
    IN [i \in Positions(df) |->
          /\ i \in P
          /\ n >= 2
          /\ var > 0
          /\ LET d == n * df.data[i][col][1] - sum
             IN d * d * (n - 1) * threshold.den * threshold.den
                    >= threshold.num * threshold.num * n * var]

ZscoreMaskNotLe(df, col, threshold) ==
    LET P == Present(df, col)
        n == Cardinality(P)
        sum == SumOver(df, col, P)
        var == n * SumSqOver(df, col, P) - sum * sum
    IN [i \in Positions(df) |->
          /\ i \in P
          /\ ~ (/\ n >= 2
                /\ var > 0
                /\ LET d == n * df.data[i][col][1] - sum
                   IN d * d * (n - 1) * threshold.den * threshold.den
                          <= threshold.num * threshold.num * n * var)]

\* Variant that compares the squared z-score with the threshold.
ZscoreMaskSquared(df, col, threshold) ==
    LET P == Present(df, col)
        n == Cardinality(P)
        sum == SumOver(df, col, P)
        var == n * SumSqOver(df, col, P) - sum * sum
    IN [i \in Positions(df) |->
          /\ i \in P
          /\ n >= 2
          /\ var > 0
          /\ LET d == n * df.data[i][col][1] - sum
             IN d * d * (n - 1) * threshold.den > threshold.num * n * var]

ZscoreMaskCountAll(df, col, threshold) ==
    LET P == Present(df, col)
        n == Len(df.index)
        sum == SumOver(df, col, P)
        var == n * SumSqOver(df, col, P) - sum * sum
    IN [i \in Positions(df) |->
          /\ i \in P
          /\ n >= 2
          /\ var > 0
          /\ LET d == n * df.data[i][col][1] - sum
             IN d * d * (n - 1) * threshold.den * threshold.den
                    > threshold.num * threshold.num * n * var]

\* np.abs((v - mean) / std) > threshold with std the sample standard
\* deviation (divisor n - 1), written without division and square root:
\* (n*v - sum)^2 * (n - 1) * den^2 > num^2 * n * (n*sumsq - sum^2).
\* A NaN z-score (missing value, n = 1, std = 0) compares False.
ZscoreMask(df, col, threshold) ==
    LET P == Present(df, col)
        n == Cardinality(P)
        sum == SumOver(df, col, P)
        sumsq == SumSqOver(df, col, P)
        var == n * sumsq - sum * sum
    IN [i \in Positions(df) |->
          /\ i \in P
          /\ n >= 2
          /\ var > 0
          /\ LET d == n * df.data[i][col][1] - sum
             IN d * d * (n - 1) * threshold.den * threshold.den
                    > threshold.num * threshold.num * n * var]

detect_outliers_zscore(df, amount_column, threshold) ==
    LET h0 == [df |-> df]
    IN IF Empty(df)
       THEN Return(<<EmptyDataFrame>>, h0)
       ELSE IF amount_column \notin df.columns
            THEN Raise("KeyError", h0)
            ELSE Return(<<BoolIndex(df, ZscoreMask(df, amount_column, threshold))>>, h0)

(***************************************************************************)
(* detect_outliers_isolation_forest(df, amount_column, contamination)      *)
(* The fitted forest is a library model: its predictions (1 inlier,        *)
(* -1 outlier, one per row) are taken as an input of the operator.         *)
(***************************************************************************)
Predictions(df) == [Positions(df) -> {1, -1}]

detect_outliers_isolation_forest(df, amount_column, predictions) ==
    LET h0 == [df |-> df]
    IN IF Empty(df)
       THEN Return(<<EmptyDataFrame>>, h0)
       ELSE IF amount_column \notin df.columns
            THEN Raise("KeyError", h0)
            ELSE IF Present(df, amount_column) # Positions(df)
                 THEN Raise("ValueError", h0)
                 ELSE Return(<<BoolIndex(df, [i \in Positions(df) |->
                                                  predictions[i] = -1])>>, h0)

(***************************************************************************)
(* Call sites.  Python binds positional arguments to parameters and raises *)
(* TypeError when a call passes more of them than the function declares.   *)
(***************************************************************************)
find_unmatched_entries_params == 2

detect_duplicates_params == 1

Call_find_unmatched_entries(args) ==
    IF Len(args) # find_unmatched_entries_params
    THEN Raise("TypeError", [df1 |-> args[1], df2 |-> args[2]])
    ELSE find_unmatched_entries(args[1], args[2])

Call_detect_duplicates(args) ==
    IF Len(args) # detect_duplicates_params
    THEN Raise("TypeError", [df |-> args[1]])
    ELSE detect_duplicates(args[1])

\* reconcile_ar(ar, gl_ar, allowance): the statements up to the duplicate
\* checks; an exception raised by a call ends the function.
reconcile_ar(ar, gl_ar) ==
    LET h0 == [df1 |-> ar, df2 |-> gl_ar]
        unmatched == Call_find_unmatched_entries(<<ar, gl_ar, <<"invoice_id", "amount">>>>)
        ar_dupes == Call_detect_duplicates(<<ar, <<"invoice_id">>>>)
        gl_dupes == Call_detect_duplicates(<<gl_ar, <<"invoice_id">>>>)
    IN IF unmatched.error # "none" THEN Raise(unmatched.error, unmatched.heap)
       ELSE IF ar_dupes.error # "none" THEN Raise(ar_dupes.error, unmatched.heap)
       ELSE IF gl_dupes.error # "none" THEN Raise(gl_dupes.error, unmatched.heap)
       ELSE Return(unmatched.ret \o ar_dupes.ret \o gl_dupes.ret, unmatched.heap)

(***************************************************************************)
(* State machine: a caller holding two tables calls one of the primitives  *)
(* (or reconcile_ar) on them and receives the returned tables or an error. *)
(***************************************************************************)
NoCall == [op |-> "none"]

AmountColumns == {"txn_amount", "amount"}

Thresholds == {[num |-> 1, den |-> 2], [num |-> 1, den |-> 1], DefaultThreshold}

Init ==
    /\ df1 \in Tables
    /\ df2 \in Tables
    /\ call = NoCall
    /\ error = "none"
    /\ ret = <<>>

Arg(which) == IF which = 1 THEN df1 ELSE df2

\* The caller's tables after a call on one of them.
Frame(which, r) ==
    /\ df1' = IF which = 1 THEN r.heap["df"] ELSE df1
    /\ df2' = IF which = 2 THEN r.heap["df"] ELSE df2

CallFindUnmatched ==
    LET r == find_unmatched_entries(df1, df2)
    IN /\ call = NoCall
       /\ call' = [op |-> "find_unmatched_entries"]
       /\ error' = r.error
       /\ ret' = r.ret
       /\ df1' = r.heap["df1"]
       /\ df2' = r.heap["df2"]

CallDetectDuplicates ==
    \E which \in {1, 2} :
        LET r == detect_duplicates(Arg(which))
        IN /\ call = NoCall
           /\ call' = [op |-> "detect_duplicates", arg |-> which]
           /\ error' = r.error
           /\ ret' = r.ret
           /\ Frame(which, r)

CallOutliersZscore ==
    \E which \in {1, 2}, col \in AmountColumns, threshold \in Thresholds :
        LET r == detect_outliers_zscore(Arg(which), col, threshold)
        IN /\ call = NoCall
           /\ call' = [op |-> "detect_outliers_zscore", arg |-> which,
                       amount_column |-> col, threshold |-> threshold]
           /\ error' = r.error
           /\ ret' = r.ret
           /\ Frame(which, r)

CallOutliersIsolationForest ==
    \E which \in {1, 2}, col \in AmountColumns :
        \E predictions \in Predictions(Arg(which)) :
            LET r == detect_outliers_isolation_forest(Arg(which), col, predictions)
            IN /\ call = NoCall
               /\ call' = [op |-> "detect_outliers_isolation_forest", arg |-> which,
                           amount_column |-> col]
               /\ error' = r.error
               /\ ret' = r.ret
               /\ Frame(which, r)

CallReconcileAR ==
    LET r == reconcile_ar(df1, df2)
    IN /\ call = NoCall
       /\ call' = [op |-> "reconcile_ar"]
       /\ error' = r.error
       /\ ret' = r.ret
       /\ df1' = r.heap["df1"]
       /\ df2' = r.heap["df2"]

Next ==
    \/ CallFindUnmatched
    \/ CallDetectDuplicates
    \/ CallOutliersZscore
    \/ CallOutliersIsolationForest
    \/ CallReconcileAR

Spec == Init /\ [][Next]_vars

(***************************************************************************)
(* Z-score runs: the caller holds one table with an amount column whose    *)
(* values may be missing and calls detect_outliers_zscore on it.           *)
(***************************************************************************)
MaxAmounts == 4

AmountRows ==
    { [txn_amount |-> c] : c \in {Val(10), Val(11), Val(50), NaN} }

AmountTables ==
    { DataFrameOf({"txn_amount"}, d) : d \in SeqsUpTo(AmountRows, MaxAmounts) }

InitZscore ==
    /\ df1 \in AmountTables
    /\ df2 = EmptyDataFrame
    /\ call = NoCall
    /\ error = "none"
    /\ ret = <<>>

NextZscore == CallOutliersZscore

SpecZscore == InitZscore /\ [][NextZscore]_vars

(***************************************************************************)
(* Bank reconciliation (src/bank_reconciliation.py).  GL transactions      *)
(* carry check_num and txn_type; a bank statement carries them (the        *)
(* integration fixture) or only the three key columns (the unit tests).    *)
(***************************************************************************)
MaxTxns == 2

GLColumns == KeyColumns \cup {"check_num", "txn_type"}

Txn(d, a, s, check, type) ==
    [txn_date |-> Val(d), txn_amount |-> Val(a), txn_description |-> Val(s),
     check_num |-> check, txn_type |-> Val(type)]

TxnRows ==
    { Txn("2024-02-15", 1000, "Deposit", NaN, "deposit"),
      Txn("2024-02-20", -500, "Check #123", Val("123"), "check"),
      Txn("2024-02-25", -750, "Check #456", Val("456"), "check"),
      Txn("2024-02-26", -200, "ACH Payment", NaN, "ach"),
      Txn("2024-02-25", -10, "Service Fee", NaN, "fee") }

\* A row restricted to the columns cols.
Project(row, cols) == [c \in cols |-> row[c]]

GLTables == { DataFrameOf(GLColumns, d) : d \in SeqsUpTo(TxnRows, MaxTxns) }

StatementTables ==
    GLTables \cup
    { DataFrameOf(KeyColumns, d) :
        d \in SeqsUpTo({ Project(r, KeyColumns) : r \in TxnRows }, MaxTxns) }

\* Series.sum(): the sum of the present values, 0 for none.
Sum(df, col) == SumOver(df, col, Present(df, col))

(***************************************************************************)
(* pd.merge(left, right, on=keys, how='left', indicator=True): one row per *)
(* pair of a left row and a right row with equal keys, in the order of the *)
(* left rows then of the right rows; a left row without partner appears    *)
(* once with the right columns missing and _merge = 'left_only'.  A        *)
(* non-key column that both tables have is suffixed _x (left), _y (right). *)
(* The result has a fresh RangeIndex.                                      *)
(***************************************************************************)
Overlap(left, right, keys) == (left.columns \cap right.columns) \ keys

MergedColumns(left, right, keys) ==
    LET o == Overlap(left, right, keys)
    IN keys \cup ((left.columns \cup right.columns) \ (keys \cup o))
            \cup { c \o "_x" : c \in o } \cup { c \o "_y" : c \in o }
            \cup {"_merge"}

\* The merged row of left row l and right row r (r is not read when l has
\* no partner).
MergedRow(left, right, keys, l, r, indicator) ==
    LET o == Overlap(left, right, keys)
        FromRight(c) == IF indicator = "left_only" THEN NaN ELSE r[c]
    IN [c \in MergedColumns(left, right, keys) |->
          IF c = "_merge" THEN Val(indicator)
          ELSE IF c \in keys THEN l[c]
          ELSE IF c \in left.columns \ o THEN l[c]
          ELSE IF c \in right.columns \ o THEN FromRight(c)
          ELSE IF \E x \in o : c = x \o "_x"
               THEN l[CHOOSE x \in o : c = x \o "_x"]
               ELSE FromRight(CHOOSE y \in o : c = y \o "_y")]

\* The right rows whose keys equal those of left row l, in order.
Partners(right, keys, l) ==
    SelectSeq2(right.data,
               [j \in Positions(right) |-> \A c \in keys : right.data[j][c] = l[c]], 1)

RECURSIVE MergeRows(_, _, _, _)
MergeRows(left, right, keys, i) ==
    IF i > Len(left.data) THEN <<>>
    ELSE LET l == left.data[i]
             ps == Partners(right, keys, l)
         IN (IF ps = <<>>
             THEN <<MergedRow(left, right, keys, l, l, "left_only")>>
             ELSE [k \in 1..Len(ps) |->
                     MergedRow(left, right, keys, l, ps[k], "both")])
            \o MergeRows(left, right, keys, i + 1)

MergeLeft(left, right, keys) ==
    DataFrameOf(MergedColumns(left, right, keys), MergeRows(left, right, keys, 1))

\* Variant of ColumnIsin that ignores the other table.
ColumnIsinNothing(df, col, other, ocol) == [i \in Positions(df) |-> FALSE]

\* series.isin(other[ocol]): the value occurs in column ocol of other
\* (a missing value occurs where a missing value is).
ColumnIsin(df, col, other, ocol) ==
    [i \in Positions(df) |->
        \E j \in Positions(other) : other.data[j][ocol] = df.data[i][col]]

\* Descriptions that contain 'fee' in any letter case
\* (str.contains('fee', case=False, na=False)).
FeeDescriptions == {"Service Fee"}

ContainsFee(c) == ~IsNull(c) /\ c[1] \in FeeDescriptions

\* The rows of df that `selected` holds and whose amount, date and
\* description each occur nowhere in the column of the same name of other.
NotInOther(df, other, selected) ==
    LET amount == ColumnIsin(df, "txn_amount", other, "txn_amount")
        date == ColumnIsin(df, "txn_date", other, "txn_date")
        description == ColumnIsin(df, "txn_description", other, "txn_description")
    IN BoolIndex(df, [i \in Positions(df) |->
                        selected[i] /\ ~amount[i] /\ ~date[i] /\ ~description[i]])

\* identify_outstanding_items(gl_transactions, bank_stmt): the four tables
\* outstanding_checks, ach_in_transit, deposits_in_transit, service_fees.
identify_outstanding_items(gl_transactions, bank_stmt) ==
    LET h0 == [df1 |-> gl_transactions, df2 |-> bank_stmt]
        merged == MergeLeft(gl_transactions, bank_stmt, KeyColumns)
        outstanding_checks ==
            BoolIndex(merged, [i \in Positions(merged) |->
                /\ ~IsNull(merged.data[i]["check_num_x"])
                /\ merged.data[i]["_merge"] = Val("left_only")])
        ach_in_transit ==
            NotInOther(gl_transactions, bank_stmt,
                       [i \in Positions(gl_transactions) |->
                           gl_transactions.data[i]["txn_type"] = Val("ach")])
        deposits_in_transit ==
            NotInOther(gl_transactions, bank_stmt,
                       [i \in Positions(gl_transactions) |->
                           gl_transactions.data[i]["txn_type"] = Val("deposit")])
        service_fees ==
            NotInOther(bank_stmt, gl_transactions,
                       [i \in Positions(bank_stmt) |->
                           ContainsFee(bank_stmt.data[i]["txn_description"])])
    IN IF ~(KeyColumns \subseteq gl_transactions.columns)
          \/ ~(KeyColumns \subseteq bank_stmt.columns)
       THEN Raise("KeyError", h0)
       ELSE IF "check_num_x" \notin merged.columns
            THEN Raise("KeyError", h0)
            ELSE IF "txn_type" \notin gl_transactions.columns
                 THEN Raise("KeyError", h0)
                 ELSE Return(<<outstanding_checks, ach_in_transit,
                               deposits_in_transit, service_fees>>, h0)

Abs(x) == IF x < 0 THEN -x ELSE x

\* sum(df['txn_amount'].sum() for df in tables), from table k on.
RECURSIVE TotalAmount(_, _)
TotalAmount(tables, k) ==
    IF k > Len(tables) THEN 0
    ELSE Sum(tables[k], "txn_amount") + TotalAmount(tables, k + 1)

\* The tolerance 1e-6 of is_reconciled is 1 / ToleranceInverse; amounts are
\* whole units, so |x| <= 1e-6 is |x| <= 1 \div ToleranceInverse.
ToleranceInverse == 1000000

\* compare_balances(bank_stmt, gl_transactions)
compare_balances(bank_stmt, gl_transactions) ==
    LET h0 == [df1 |-> gl_transactions, df2 |-> bank_stmt]
        bank_stmt_balance == IF Empty(bank_stmt) THEN 0 ELSE Sum(bank_stmt, "txn_amount")
        gl_balance == IF Empty(gl_transactions) THEN 0 ELSE Sum(gl_transactions, "txn_amount")
        balance_diff == gl_balance - bank_stmt_balance
        outstanding_items == identify_outstanding_items(gl_transactions, bank_stmt)
        items == outstanding_items.ret
        outstanding_total == TotalAmount(items, 1)
        adjusted_balance == gl_balance - outstanding_total
    IN IF \/ (~Empty(bank_stmt) /\ "txn_amount" \notin bank_stmt.columns)
          \/ (~Empty(gl_transactions) /\ "txn_amount" \notin gl_transactions.columns)
       THEN Raise("KeyError", h0)
       ELSE IF outstanding_items.error # "none"
            THEN Raise(outstanding_items.error, h0)
            ELSE Return(<<[bank_stmt_balance |-> bank_stmt_balance,
                           gl_balance |-> gl_balance,
                           balance_difference |-> balance_diff,
                           outstanding_items |-> items,
                           outstanding_total |-> outstanding_total,
                           adjusted_balance |-> adjusted_balance,
                           is_reconciled |->
                               Abs(adjusted_balance - bank_stmt_balance)
                                   <= 1 \div ToleranceInverse]>>, h0)

\* Variant of GroupFilter that keeps every group.
GroupFilterAll(df, keys) ==
    [i \in Positions(df) |-> \A c \in keys : ~IsNull(df.data[i][c])]

\* df.groupby(keys).filter(lambda x: len(x) > 1): the mask of the rows whose
\* group has more than one row; a row with a missing key is in no group.
GroupFilter(df, keys) ==
    [i \in Positions(df) |->
        /\ \A c \in keys : ~IsNull(df.data[i][c])
        /\ Cardinality({ j \in Positions(df) :
                           \A c \in keys : df.data[j][c] = df.data[i][c] }) > 1]

\* analyze_transaction_patterns(gl_transactions, bank_stmt): the two tables
\* same_day_same_amount and round_amounts.
analyze_transaction_patterns(gl_transactions, bank_stmt) ==
    LET h0 == [df1 |-> gl_transactions, df2 |-> bank_stmt]
        gl_same_day ==
            BoolIndex(gl_transactions, GroupFilter(gl_transactions, {"txn_date", "txn_amount"}))
        gl_round ==
            BoolIndex(gl_transactions,
                      [i \in Positions(gl_transactions) |->
                          /\ ~IsNull(gl_transactions.data[i]["txn_amount"])
                          /\ gl_transactions.data[i]["txn_amount"][1] % 100 = 0])
    IN IF Empty(gl_transactions)
       THEN Return(<<EmptyDataFrame, EmptyDataFrame>>, h0)
       ELSE IF ~({"txn_date", "txn_amount"} \subseteq gl_transactions.columns)
            THEN Raise("KeyError", h0)
            ELSE Return(<<gl_same_day, gl_round>>, h0)

\* A caller holding GL transactions (df1) and a bank statement (df2) calls
\* one of the bank reconciliation functions.
InitBank ==
    /\ df1 \in GLTables
    /\ df2 \in StatementTables
    /\ call = NoCall
    /\ error = "none"
    /\ ret = <<>>

CallIdentifyOutstandingItems ==
    LET r == identify_outstanding_items(df1, df2)
    IN /\ call = NoCall
       /\ call' = [op |-> "identify_outstanding_items"]
       /\ error' = r.error
       /\ ret' = r.ret
       /\ df1' = r.heap["df1"]
       /\ df2' = r.heap["df2"]

CallCompareBalances ==
    LET r == compare_balances(df2, df1)
    IN /\ call = NoCall
       /\ call' = [op |-> "compare_balances"]
       /\ error' = r.error
       /\ ret' = r.ret
       /\ df1' = r.heap["df1"]
       /\ df2' = r.heap["df2"]

CallAnalyzeTransactionPatterns ==
    LET r == analyze_transaction_patterns(df1, df2)
    IN /\ call = NoCall
       /\ call' = [op |-> "analyze_transaction_patterns"]
       /\ error' = r.error
       /\ ret' = r.ret
       /\ df1' = r.heap["df1"]
       /\ df2' = r.heap["df2"]

NextBank ==
    \/ CallIdentifyOutstandingItems
    \/ CallCompareBalances
    \/ CallAnalyzeTransactionPatterns

SpecBank == InitBank /\ [][NextBank]_vars

(***************************************************************************)
(* Aging of accounts payable (src/ap_reconciliation.py).  Dates are day    *)
(* numbers.  analyze_ap_aging reads the reference date from the wall clock *)
(* (datetime.now()): the clock's value is an input of the operator that    *)
(* the environment, not the caller, chooses at each call.                  *)
(***************************************************************************)
MaxBills == 2

\* Days the wall clock may show when a call runs.
Clock == {100, 101, 131}

BillRows ==
    { [date |-> Val(10), amount |-> Val(100)],
      [date |-> Val(40), amount |-> Val(250)],
      [date |-> Val(70), amount |-> Val(100)],
      [date |-> NaN, amount |-> Val(100)] }

APTables == { DataFrameOf({"date", "amount"}, d) : d \in SeqsUpTo(BillRows, MaxBills) }

\* df[col] = series: in-place assignment of one cell per row.
SetItemSeries(heap, ref, col, series) ==
    [heap EXCEPT ![ref] =
        [columns |-> @.columns \cup {col},
         index   |-> @.index,
         data    |-> [i \in 1..Len(@.data) |->
                        [c \in DOMAIN @.data[i] \cup {col} |->
                            IF c = col THEN series[i] ELSE @.data[i][c]]]]]

\* Variant of Bucket whose lower bound is inclusive.
BucketInclusive(df, lo, hi) ==
    BoolIndex(df, [i \in Positions(df) |->
        LET c == df.data[i]["days_outstanding"]
        IN /\ ~IsNull(c)
           /\ (lo = -1 \/ c[1] >= lo)
           /\ (hi = -1 \/ c[1] <= hi)])

\* df[lo < df['days_outstanding'] <= hi]; a missing value is in no bucket.
\* An absent bound is written as -1.
Bucket(df, lo, hi) ==
    BoolIndex(df, [i \in Positions(df) |->
        LET c == df.data[i]["days_outstanding"]
        IN /\ ~IsNull(c)
           /\ (lo = -1 \/ c[1] > lo)
           /\ (hi = -1 \/ c[1] <= hi)])

\* analyze_ap_aging(ap), with today the value datetime.now() returns.
analyze_ap_aging(ap, today) ==
    LET h0 == [df |-> ap]
        h1 == SetItemSeries(h0, "df", "days_outstanding",
                  [i \in Positions(ap) |->
                      IF IsNull(ap.data[i]["date"]) THEN NaN
                      ELSE Val(today - ap.data[i]["date"][1])])
        t == h1["df"]
        aging_buckets ==
            <<Bucket(t, -1, 30), Bucket(t, 30, 60), Bucket(t, 60, 90), Bucket(t, 90, -1)>>
    IN IF "date" \notin ap.columns
       THEN Raise("KeyError", h0)
       ELSE IF "amount" \notin ap.columns
            THEN Raise("KeyError", h1)
            ELSE Return(<<[aging_buckets |-> aging_buckets,
                           aging_totals |-> [b \in 1..4 |-> Sum(aging_buckets[b], "amount")],
                           total_outstanding |-> Sum(t, "amount")]>>, h1)

\* A caller holds two equal AP tables and calls analyze_ap_aging on each,
\* one call after the other; ret lists the results in call order.
InitAging ==
    /\ df1 \in APTables
    /\ df2 = df1
    /\ call = NoCall
    /\ error = "none"
    /\ ret = <<>>

CallAnalyzeApAging ==
    \E which \in {1, 2}, now \in Clock :
        LET r == analyze_ap_aging(Arg(which), now)
        IN /\ error = "none"
           /\ \/ /\ call = NoCall
                 /\ call' = [op |-> "analyze_ap_aging", args |-> <<which>>,
                             now |-> <<now>>]
              \/ /\ call # NoCall
                 /\ Len(call.args) = 1
                 /\ which # call.args[1]
                 /\ now >= call.now[1]
                 /\ call' = [call EXCEPT !.args = @ \o <<which>>, !.now = @ \o <<now>>]
           /\ error' = r.error
           /\ ret' = ret \o r.ret
           /\ Frame(which, r)

NextAging == CallAnalyzeApAging

SpecAging == InitAging /\ [][NextAging]_vars

\* analyze_ar_aging(ar) (src/ar_reconciliation.py): the same statements as
\* analyze_ap_aging, on the receivables table.
analyze_ar_aging(ar, today) == analyze_ap_aging(ar, today)

\* A caller holds a payables table (df1) and a receivables table (df2) and
\* ages one of them.
InitBuckets ==
    /\ df1 \in APTables
    /\ df2 \in APTables
    /\ call = NoCall
    /\ error = "none"
    /\ ret = <<>>

CallApAging ==
    \E now \in Clock :
        LET r == analyze_ap_aging(df1, now)
        IN /\ call = NoCall
           /\ call' = [op |-> "analyze_ap_aging", now |-> now]
           /\ error' = r.error
           /\ ret' = r.ret
           /\ Frame(1, r)

CallArAging ==
    \E now \in Clock :
        LET r == analyze_ar_aging(df2, now)
        IN /\ call = NoCall
           /\ call' = [op |-> "analyze_ar_aging", now |-> now]
           /\ error' = r.error
           /\ ret' = r.ret
           /\ Frame(2, r)

NextBuckets == CallApAging \/ CallArAging

SpecBuckets == InitBuckets /\ [][NextBuckets]_vars

(***************************************************************************)
(* Orchestration (src/main.py).  df1 holds the state of the data           *)
(* directory: for each domain whether its CSV files can be loaded.  A      *)
(* domain's load-then-reconcile pair returns a result or raises; the       *)
(* caller has no try/except.                                               *)
(***************************************************************************)
Domains ==
    <<"cash_equivalents", "inventory", "ar", "ap", "fixed_assets", "prepaid", "accrued">>

DomainNames == { Domains[k] : k \in 1..Len(Domains) } \cup {"bank"}

DataDirs == [DomainNames -> {"ok", "missing"}]

\* Domains whose reconcile function calls find_unmatched_entries with a
\* third positional argument (a list of key columns).
KeyListCallers == {"ar", "ap", "fixed_assets", "prepaid", "accrued"}

\* Parameters of reconcile_bank_accounts without default, and the keyword
\* arguments main passes.
reconcile_bank_accounts_required ==
    {"bank_account_id", "client_id", "start_date", "end_date"}

main_bank_keywords == {"bank_account_id", "start_date", "end_date", "data_dir"}

\* Outcome of main's call reconcile_bank_accounts(bank_account_id=...,
\* start_date=..., end_date=..., data_dir=...).
BankOutcome(files) ==
    IF ~(reconcile_bank_accounts_required \subseteq main_bank_keywords)
    THEN [error |-> "TypeError"]
    ELSE IF files["bank"] = "missing"
         THEN [error |-> "FileNotFoundError"]
         ELSE [error |-> "none", result |-> [domain |-> "bank"]]

\* Outcome of the load-then-reconcile pair of a domain of
\* run_all_reconciliations.
DomainOutcome(d, files) ==
    IF files[d] = "missing"
    THEN [error |-> "FileNotFoundError"]
    ELSE IF d \in KeyListCallers
         THEN LET t == DataFrameOf({"amount"}, <<>>)
                  r == Call_find_unmatched_entries(<<t, t, <<"amount">>>>)
              IN IF r.error # "none" THEN [error |-> r.error]
                 ELSE [error |-> "none", result |-> [domain |-> d]]
         ELSE [error |-> "none", result |-> [domain |-> d]]

\* An exception leaves the running function and its callers: nothing
\* catches it.
Propagate(c, e) == [call |-> [c EXCEPT !.pc = "raised"], error |-> e]

\* The step after domain number k of run_all_reconciliations.
AfterDomain(c, k) ==
    IF k < Len(Domains) THEN Domains[k + 1]
    ELSE IF c.op = "main" THEN "print_results" ELSE "returned"

InitMain ==
    /\ df1 \in DataDirs
    /\ df2 = EmptyDataFrame
    /\ call \in { [op |-> "main", pc |-> "bank", started |-> <<>>],
                  [op |-> "run_all_reconciliations", pc |-> "cash_equivalents",
                   started |-> <<>>] }
    /\ error = "none"
    /\ ret = <<>>

\* A statement of main: the bank reconciliation, then (after
\* run_all_reconciliations has returned) print_results.
main ==
    /\ call.op = "main"
    /\ UNCHANGED <<df1, df2>>
    /\ \/ /\ call.pc = "bank"
          /\ LET c == [call EXCEPT !.started = @ \o <<"bank">>]
                 o == BankOutcome(df1)
                 p == Propagate(c, o.error)
             IN IF o.error # "none"
                THEN call' = p.call /\ error' = p.error /\ ret' = ret
                ELSE /\ call' = [c EXCEPT !.pc = Domains[1]]
                     /\ error' = error
                     /\ ret' = ret \o <<o.result>>
       \/ /\ call.pc = "print_results"
          /\ call' = [call EXCEPT !.pc = "printed"]
          /\ UNCHANGED <<error, ret>>

\* A statement of run_all_reconciliations: the next domain.
run_all_reconciliations ==
    \E k \in 1..Len(Domains) :
        /\ call.pc = Domains[k]
        /\ UNCHANGED <<df1, df2>>
        /\ LET c == [call EXCEPT !.started = @ \o <<Domains[k]>>]
               o == DomainOutcome(Domains[k], df1)
               p == Propagate(c, o.error)
           IN IF o.error # "none"
              THEN call' = p.call /\ error' = p.error /\ ret' = ret
              ELSE /\ call' = [c EXCEPT !.pc = AfterDomain(c, k)]
                   /\ error' = error
                   /\ ret' = ret \o <<o.result>>

NextMain == main \/ run_all_reconciliations

SpecMain == InitMain /\ [][NextMain]_vars

(***************************************************************************)
(* Outstanding items: GL and bank statement both carry the five columns;   *)
(* rows of the two tables may share single field values (a date) without   *)
(* matching as tuples, and nothing in the loaders ties check_num to the    *)
(* transaction type.                                                       *)
(***************************************************************************)
MaxItems == 2

ItemRows ==
    { Txn("2024-02-15", 1000, "Deposit", NaN, "deposit"),
      Txn("2024-02-25", -10, "Service Fee", NaN, "fee"),
      Txn("2024-02-15", -200, "ACH Payment", NaN, "ach"),
      Txn("2024-02-27", -400, "ACH Payment 789", Val("789"), "ach") }

ItemTables == { DataFrameOf(GLColumns, d) : d \in SeqsUpTo(ItemRows, MaxItems) }

InitOutstanding ==
    /\ df1 \in ItemTables
    /\ df2 \in ItemTables
    /\ call = NoCall
    /\ error = "none"
    /\ ret = <<>>

NextOutstanding == CallIdentifyOutstandingItems \/ CallCompareBalances

SpecOutstanding == InitOutstanding /\ [][NextOutstanding]_vars

(***************************************************************************)
(* find_unmatched_entries on reordered inputs: the caller holds two bank   *)
(* tables and calls the function on them and on the same rows in another   *)
(* order (each table re-indexed 0..n-1, as a loader returns it); ret lists *)
(* the two results of the first call, then those of the second.            *)
(***************************************************************************)
RowOrders(n) ==
    { f \in [1..n -> 1..n] : \A i, j \in 1..n : f[i] = f[j] => i = j }

\* The rows of df in the order perm, with a fresh RangeIndex.
Permute(df, perm) ==
    DataFrameOf(df.columns, [i \in 1..Len(df.data) |-> df.data[perm[i]]])

InitPermuted ==
    /\ df1 \in TablesOver(KeyColumns, BankRows)
    /\ df2 \in TablesOver(KeyColumns, BankRows)
    /\ call = NoCall
    /\ error = "none"
    /\ ret = <<>>

CallFindUnmatchedPermuted ==
    \E pa \in RowOrders(Len(df1.data)), pb \in RowOrders(Len(df2.data)) :
        LET r1 == find_unmatched_entries(df1, df2)
            r2 == find_unmatched_entries(Permute(df1, pa), Permute(df2, pb))
        IN /\ call = NoCall
           /\ call' = [op |-> "find_unmatched_entries_permuted", perms |-> <<pa, pb>>]
           /\ error' = IF r1.error # "none" THEN r1.error ELSE r2.error
           /\ ret' = r1.ret \o r2.ret
           /\ df1' = r1.heap["df1"]
           /\ df2' = r1.heap["df2"]

NextPermuted == CallFindUnmatchedPermuted

SpecPermuted == InitPermuted /\ [][NextPermuted]_vars

(***************************************************************************)
(* Small samples: detect_outliers_zscore on tables of up to MaxSample      *)
(* amounts, each a common value or a far one, and on the four values of    *)
(* the unit test (in hundreds).                                            *)
(***************************************************************************)
MaxSample == 10

SampleRows == { [txn_amount |-> Val(10)], [txn_amount |-> Val(50)] }

SampleTables ==
    { DataFrameOf({"txn_amount"}, d) : d \in SeqsUpTo(SampleRows, MaxSample) }
    \cup { DataFrameOf({"txn_amount"},
               <<[txn_amount |-> Val(10)], [txn_amount |-> Val(11)],
                 [txn_amount |-> Val(9)], [txn_amount |-> Val(50)]>>) }

InitSample ==
    /\ df1 \in SampleTables
    /\ df2 = EmptyDataFrame
    /\ call = NoCall
    /\ error = "none"
    /\ ret = <<>>

NextSample == CallOutliersZscore

SpecSample == InitSample /\ [][NextSample]_vars

(***************************************************************************)
(* analyze_transaction_dates (src/bank_reconciliation.py).  Dates are day  *)
(* numbers; the tables have the three key columns, as in the unit test.    *)
(***************************************************************************)
MaxDated == 2

DatedRows ==
    { [txn_date |-> Val(95), txn_amount |-> Val(1000), txn_description |-> Val("Deposit")],
      [txn_date |-> Val(60), txn_amount |-> Val(1000), txn_description |-> Val("Old Deposit")],
      [txn_date |-> Val(95), txn_amount |-> Val(-500), txn_description |-> Val("Check #123")] }

DatedTables == { DataFrameOf(KeyColumns, d) : d \in SeqsUpTo(DatedRows, MaxDated) }

\* pd.merge(left, right, on=keys, how='inner', suffixes=('_gl', '_bank')):
\* one row per pair of a left and a right row with equal keys, in the order
\* of the left rows; a non-key column of both tables appears twice, with
\* the suffixes.
InnerColumns(left, right, keys) ==
    LET o == Overlap(left, right, keys)
    IN keys \cup ((left.columns \cup right.columns) \ (keys \cup o))
            \cup { c \o "_gl" : c \in o } \cup { c \o "_bank" : c \in o }

InnerRow(left, right, keys, l, r) ==
    LET o == Overlap(left, right, keys)
    IN [c \in InnerColumns(left, right, keys) |->
          IF c \in keys THEN l[c]
          ELSE IF c \in left.columns \ o THEN l[c]
          ELSE IF c \in right.columns \ o THEN r[c]
          ELSE IF \E x \in o : c = x \o "_gl"
               THEN l[CHOOSE x \in o : c = x \o "_gl"]
               ELSE r[CHOOSE y \in o : c = y \o "_bank"]]

RECURSIVE InnerRows(_, _, _, _)
InnerRows(left, right, keys, i) ==
    IF i > Len(left.data) THEN <<>>
    ELSE LET l == left.data[i]
             ps == Partners(right, keys, l)
         IN [k \in 1..Len(ps) |-> InnerRow(left, right, keys, l, ps[k])]
            \o InnerRows(left, right, keys, i + 1)

MergeInner(left, right, keys) ==
    DataFrameOf(InnerColumns(left, right, keys), InnerRows(left, right, keys, 1))

\* analyze_transaction_dates(gl_transactions, bank_stmt), with today the
\* value datetime.now() returns: the tables same_amount_different_dates
\* and old_transactions.
analyze_transaction_dates(gl_transactions, bank_stmt, today) ==
    LET h0 == [df1 |-> gl_transactions, df2 |-> bank_stmt]
        keys == {"txn_date", "txn_amount"}
        merged == MergeInner(gl_transactions, bank_stmt, keys)
        old_gl_txns ==
            BoolIndex(gl_transactions,
                      [i \in Positions(gl_transactions) |->
                          /\ ~IsNull(gl_transactions.data[i]["txn_date"])
                          /\ today - gl_transactions.data[i]["txn_date"][1] > 30])
    IN IF Empty(gl_transactions) \/ Empty(bank_stmt)
       THEN Return(<<EmptyDataFrame, EmptyDataFrame>>, h0)
       ELSE IF ~(keys \subseteq gl_transactions.columns)
               \/ ~(keys \subseteq bank_stmt.columns)
            THEN Raise("KeyError", h0)
            ELSE Return(<<merged, old_gl_txns>>, h0)

InitDates ==
    /\ df1 \in DatedTables
    /\ df2 \in DatedTables
    /\ call = NoCall
    /\ error = "none"
    /\ ret = <<>>

CallAnalyzeTransactionDates ==
    \E now \in Clock :
        LET r == analyze_transaction_dates(df1, df2, now)
        IN /\ call = NoCall
           /\ call' = [op |-> "analyze_transaction_dates", now |-> now]
           /\ error' = r.error
           /\ ret' = r.ret
           /\ df1' = r.heap["df1"]
           /\ df2' = r.heap["df2"]

NextDates == CallAnalyzeTransactionDates

SpecDates == InitDates /\ [][NextDates]_vars

(***************************************************************************)
(* Chunked loading (src/api/gl_accounts_api.py).  df1 is the CSV file: a   *)
(* header and a sequence of lines whose fields are text.  read_csv infers  *)
(* the type of every column chunk by chunk.  A parsed cell is a tagged     *)
(* value: an integer, a string or a timestamp (a day number).              *)
(***************************************************************************)
MaxFile == 3

default_chunk_size == 10000

FileColumns == {"bank_account_id", "client_id", "txn_date", "check_num"}

FileLine(b, c, d, k) ==
    [bank_account_id |-> b, client_id |-> c, txn_date |-> d, check_num |-> k]

FileLines ==
    { FileLine("1", "7", "2024-02-15", "123"),
      FileLine("1", "7", "2024-04-01", ""),
      FileLine("2", "7", "2024-02-15", "ACH"),
      FileLine("A-3", "7", "2024-02-15", ""),
      FileLine("1", "8", "2024-01-10", "124") }

Files == SeqsUpTo(FileLines, MaxFile)

AccountIds == {1, 2}

ClientIds == {7}

\* start_date / end_date: None (written NaN) or a datetime (a day number).
StartDates == {NaN, Val(32)}

EndDates == {NaN, Val(60)}

IntCell(n) == [t |-> "int", n |-> n, s |-> ""]

StrCell(x) == [t |-> "str", n |-> 0, s |-> x]

Timestamp(n) == [t |-> "date", n |-> n, s |-> ""]

\* The fields read_csv parses as integers, and their values.
Numerals == {"1", "2", "7", "8", "123", "124"}

NumOf(x) ==
    CASE x = "1" -> 1 [] x = "2" -> 2 [] x = "7" -> 7 [] x = "8" -> 8
      [] x = "123" -> 123 [] x = "124" -> 124

\* pd.to_datetime of an ISO date: the day of the year 2024.
DayOf(x) ==
    CASE x = "2024-01-10" -> 10 [] x = "2024-02-15" -> 46 [] x = "2024-04-01" -> 92

\* One column of one chunk: numeric when every non-empty field of the
\* chunk is a numeral, else object (the fields stay text); an empty field
\* is NaN.
ParseColumn(lines, col) ==
    LET numeric == \A i \in 1..Len(lines) : lines[i][col] \in Numerals \cup {""}
    IN [i \in 1..Len(lines) |->
          IF lines[i][col] = "" THEN NaN
          ELSE IF numeric THEN Val(IntCell(NumOf(lines[i][col])))
               ELSE Val(StrCell(lines[i][col]))]

\* The chunk of the lines at file positions offset, offset + 1, ...
ReadChunk(lines, offset) ==
    [columns |-> FileColumns,
     index   |-> [i \in 1..Len(lines) |-> offset + i - 1],
     data    |-> [i \in 1..Len(lines) |->
                    [c \in FileColumns |-> ParseColumn(lines, c)[i]]]]

\* pd.read_csv(file_path, chunksize=chunksize): the chunks in file order.
\* A file with a header and no line gives one empty chunk.
RECURSIVE read_csv(_, _, _)
read_csv(file, chunksize, offset) ==
    IF Len(file) = 0
    THEN IF offset = 0 THEN <<ReadChunk(<<>>, 0)>> ELSE <<>>
    ELSE LET n == IF chunksize < Len(file) THEN chunksize ELSE Len(file)
         IN <<ReadChunk(SubSeq(file, 1, n), offset)>>
            \o read_csv(SubSeq(file, n + 1, Len(file)), chunksize, offset + n)

to_datetime(cell) ==
    IF IsNull(cell) THEN NaN
    ELSE IF cell[1].t = "str" THEN Val(Timestamp(DayOf(cell[1].s)))
         ELSE Val(Timestamp(cell[1].n))

\* Lines 48-62: the filters and the date conversion on one chunk.
FilterChunk(chunk, bank_account_id, client_id, start_date, end_date) ==
    LET c1 == BoolIndex(chunk,
                  [i \in Positions(chunk) |->
                      /\ chunk.data[i]["bank_account_id"] = Val(IntCell(bank_account_id))
                      /\ chunk.data[i]["client_id"] = Val(IntCell(client_id))])
        c2 == [c1 EXCEPT !.data =
                  [i \in 1..Len(@) |->
                      [@[i] EXCEPT !["txn_date"] = to_datetime(@)]]]
        c3 == IF IsNull(start_date) THEN c2
              ELSE BoolIndex(c2,
                       [i \in Positions(c2) |->
                           /\ ~IsNull(c2.data[i]["txn_date"])
                           /\ c2.data[i]["txn_date"][1].n >= start_date[1]])
    IN IF IsNull(end_date) THEN c3
       ELSE BoolIndex(c3,
                [i \in Positions(c3) |->
                    /\ ~IsNull(c3.data[i]["txn_date"])
                    /\ c3.data[i]["txn_date"][1].n <= end_date[1]])

RECURSIVE ConcatData(_, _)
ConcatData(frames, k) ==
    IF k > Len(frames) THEN <<>>
    ELSE frames[k].data \o ConcatData(frames, k + 1)

\* pd.concat(transactions, ignore_index=True)
ConcatIgnoreIndex(frames) ==
    DataFrameOf(UNION { frames[k].columns : k \in 1..Len(frames) },
                ConcatData(frames, 1))

\* GLAccountsAPI.get_gl_transactions over the file.
get_gl_transactions(file, bank_account_id, client_id, start_date, end_date, chunk_size) ==
    LET chunks == read_csv(file, chunk_size, 0)
        transactions ==
            [k \in 1..Len(chunks) |->
                FilterChunk(chunks[k], bank_account_id, client_id, start_date, end_date)]
    IN IF Len(transactions) > 0
       THEN Return(<<ConcatIgnoreIndex(transactions)>>, [df1 |-> file])
       ELSE Return(<<EmptyDataFrame>>, [df1 |-> file])

InitChunks ==
    /\ df1 \in Files
    /\ df2 = EmptyDataFrame
    /\ call = NoCall
    /\ error = "none"
    /\ ret = <<>>

\* A caller loads the file twice with the same filters: with a chunk size
\* of its choice, and with the default one (the file is one chunk).  ret
\* lists the two tables in this order.
CallGetGlTransactions ==
    \E id \in AccountIds, cid \in ClientIds, start \in StartDates, end \in EndDates,
       chunk_size \in 1..MaxFile :
        LET r1 == get_gl_transactions(df1, id, cid, start, end, chunk_size)
            r2 == get_gl_transactions(df1, id, cid, start, end, default_chunk_size)
        IN /\ call = NoCall
           /\ call' = [op |-> "get_gl_transactions", bank_account_id |-> id,
                       client_id |-> cid, start_date |-> start, end_date |-> end,
                       chunk_size |-> chunk_size]
           /\ error' = IF r1.error # "none" THEN r1.error ELSE r2.error
           /\ ret' = r1.ret \o r2.ret
           /\ UNCHANGED <<df1, df2>>

NextChunks == CallGetGlTransactions

SpecChunks == InitChunks /\ [][NextChunks]_vars

(***************************************************************************)
(* Fixed assets (src/fa_reconciliation.py).  df1 is the fixed assets       *)
(* register, df2 the GL fixed assets entries; dates are day numbers of     *)
(* the year.                                                               *)
(***************************************************************************)
MaxAssets == 2

FAColumns == {"asset_id", "date", "amount", "transaction_type"}

AssetRow(id, d, a, type) ==
    [asset_id |-> Val(id), date |-> Val(d), amount |-> Val(a),
     transaction_type |-> Val(type)]

AssetRows ==
    { AssetRow("FA-1", 10, 1000, "purchase"),
      AssetRow("FA-2", 40, 500, "purchase"),
      AssetRow("FA-1", 50, -300, "disposal"),
      AssetRow("FA-3", 45, 200, "transfer") }

FATables == { DataFrameOf(FAColumns, d) : d \in SeqsUpTo(AssetRows, MaxAssets) }

PeriodStarts == {1, 32}

PeriodEnds == {60, 91}

\* df[df['transaction_type'] == type]
OfType(df, type) ==
    BoolIndex(df, [i \in Positions(df) |-> df.data[i]["transaction_type"] = Val(type)])

\* df[(lo <= df['date']) & (df['date'] <= hi)]; a missing date compares
\* False.
DatedBetween(df, lo, hi) ==
    BoolIndex(df, [i \in Positions(df) |->
        /\ ~IsNull(df.data[i]["date"])
        /\ df.data[i]["date"][1] >= lo
        /\ df.data[i]["date"][1] <= hi])

\* df[df['date'] <= hi]
DatedUpTo(df, hi) ==
    BoolIndex(df, [i \in Positions(df) |->
        ~IsNull(df.data[i]["date"]) /\ df.data[i]["date"][1] <= hi])

\* df[df['date'] < lo]
DatedBefore(df, lo) ==
    BoolIndex(df, [i \in Positions(df) |->
        ~IsNull(df.data[i]["date"]) /\ df.data[i]["date"][1] < lo])

analyze_asset_movements(fa_register, gl_fa, start_date, end_date) ==
    LET h0 == [df1 |-> fa_register, df2 |-> gl_fa]
        period_transactions == DatedBetween(gl_fa, start_date, end_date)
        movements ==
            [additions   |-> OfType(period_transactions, "purchase"),
             disposals   |-> OfType(period_transactions, "disposal"),
             retirements |-> OfType(period_transactions, "retirement"),
             sales       |-> OfType(period_transactions, "sale")]
        totals ==
            [additions   |-> Sum(movements.additions, "amount"),
             disposals   |-> Sum(movements.disposals, "amount"),
             retirements |-> Sum(movements.retirements, "amount"),
             sales       |-> Sum(movements.sales, "amount")]
    IN IF ~({"date", "transaction_type", "amount"} \subseteq gl_fa.columns)
       THEN Raise("KeyError", h0)
       ELSE Return(<<[movements |-> movements, totals |-> totals]>>, h0)

\* reconcile_fixed_assets(fa_register, gl_fa, gl_depreciation, start_date,
\* end_date): the statements that lead to the roll-forward figures (the
\* outlier and depreciation analyses do not touch them); an exception
\* raised by a call ends the function.
reconcile_fixed_assets(fa_register, gl_fa, start_date, end_date) ==
    LET h0 == [df1 |-> fa_register, df2 |-> gl_fa]
        unmatched ==
            Call_find_unmatched_entries(<<fa_register, gl_fa, <<"asset_id", "amount">>>>)
        fa_dupes == Call_detect_duplicates(<<fa_register, <<"asset_id">>>>)
        movement_analysis ==
            analyze_asset_movements(fa_register, gl_fa, start_date, end_date)
    IN IF unmatched.error # "none" THEN Raise(unmatched.error, h0)
       ELSE IF fa_dupes.error # "none" THEN Raise(fa_dupes.error, h0)
       ELSE IF movement_analysis.error # "none" THEN Raise(movement_analysis.error, h0)
       ELSE Return(<<[beginning_balance |-> Sum(DatedBefore(gl_fa, start_date), "amount"),
                      ending_balance    |-> Sum(DatedUpTo(gl_fa, end_date), "amount"),
                      movement_analysis |-> movement_analysis.ret[1]]>>, h0)

InitAssets ==
    /\ df1 \in FATables
    /\ df2 \in FATables
    /\ call = NoCall
    /\ error = "none"
    /\ ret = <<>>

CallReconcileFixedAssets ==
    \E start_date \in PeriodStarts, end_date \in PeriodEnds :
        LET r == reconcile_fixed_assets(df1, df2, start_date, end_date)
        IN /\ call = NoCall
           /\ start_date <= end_date
           /\ call' = [op |-> "reconcile_fixed_assets", start_date |-> start_date,
                       end_date |-> end_date]
           /\ error' = r.error
           /\ ret' = r.ret
           /\ df1' = r.heap["df1"]
           /\ df2' = r.heap["df2"]

CallAnalyzeAssetMovements ==
    \E start_date \in PeriodStarts, end_date \in PeriodEnds :
        LET r == analyze_asset_movements(df1, df2, start_date, end_date)
        IN /\ call = NoCall
           /\ start_date <= end_date
           /\ call' = [op |-> "analyze_asset_movements", start_date |-> start_date,
                       end_date |-> end_date]
           /\ error' = r.error
           /\ ret' = r.ret
           /\ df1' = r.heap["df1"]
           /\ df2' = r.heap["df2"]

NextAssets == CallReconcileFixedAssets \/ CallAnalyzeAssetMovements

SpecAssets == InitAssets /\ [][NextAssets]_vars




(***************************************************************************)
(* Properties.  In a state reached by a call, df1 and df2 are the tables   *)
(* the caller passed and ret is the sequence of returned tables.           *)
(***************************************************************************)
Primitives ==
    {"find_unmatched_entries", "detect_duplicates",
     "detect_outliers_zscore", "detect_outliers_isolation_forest"}

Returned(op) == call.op = op /\ error = "none"

HasKeyColumns(df) == KeyColumns \subseteq df.columns

\* Both arguments of find_unmatched_entries are non-empty bank/GL tables.
BankTables == ~Empty(df1) /\ ~Empty(df2) /\ HasKeyColumns(df1) /\ HasKeyColumns(df2)

EqualOn(r1, r2, cols) ==
    \A c \in cols : (IF c \in DOMAIN r1 THEN r1[c] ELSE NaN)
                  = (IF c \in DOMAIN r2 THEN r2[c] ELSE NaN)

\* The key-tuple of row occurs in at least one row of table.
KeyOccurs(row, table, keys) ==
    \E j \in Positions(table) : EqualOn(row, table.data[j], keys)

GroupSize(table, i, keys) ==
    Cardinality({ j \in Positions(table) : EqualOn(table.data[i], table.data[j], keys) })

IsReturned(table, i, out) == table.index[i] \in Labels(out)

\* Row k of out is a row of table: same label, same values in table's columns.
IsRowOf(out, k, table) ==
    \E i \in Positions(table) :
        /\ table.index[i] = out.index[k]
        /\ EqualOn(out.data[k], table.data[i], table.columns)

\* C1: completeness of find_unmatched_entries: for non-empty tables A and B,
\* every row of A that is not returned in only_in_df1 has a key-tuple
\* (txn_date, txn_amount, txn_description) occurring in B, and every row of
\* B not returned in only_in_df2 has a key-tuple occurring in A.
C1_Completeness ==
    (Returned("find_unmatched_entries") /\ BankTables) =>
        /\ \A i \in Positions(df1) :
              IsReturned(df1, i, ret[1]) \/ KeyOccurs(df1.data[i], df2, KeyColumns)
        /\ \A i \in Positions(df2) :
              IsReturned(df2, i, ret[2]) \/ KeyOccurs(df2.data[i], df1, KeyColumns)

\* C2: soundness of find_unmatched_entries: every row returned in
\* only_in_df1 is a row of A whose key-tuple has zero occurrences in B, and
\* every row returned in only_in_df2 is a row of B whose key-tuple has zero
\* occurrences in A.
C2_Soundness ==
    Returned("find_unmatched_entries") =>
        /\ \A k \in Positions(ret[1]) :
              /\ IsRowOf(ret[1], k, df1)
              /\ ~KeyOccurs(ret[1].data[k], df2, KeyColumns)
        /\ \A k \in Positions(ret[2]) :
              /\ IsRowOf(ret[2], k, df2)
              /\ ~KeyOccurs(ret[2].data[k], df1, KeyColumns)

C2_Witness ==
    /\ Returned("find_unmatched_entries")
    /\ BankTables
    /\ Len(ret[1].index) > 0
    /\ Len(ret[2].index) > 0
    /\ Len(ret[1].index) < Len(df1.index)

\* C3: a row of A whose key-tuple occurs two or more times within A and zero
\* times in B is returned in only_in_df1 (every copy of it): duplication
\* inside one side never counts as a match.
C3_DuplicateWithinOneSide ==
    (Returned("find_unmatched_entries") /\ BankTables) =>
        \A i \in Positions(df1) :
            (GroupSize(df1, i, KeyColumns) >= 2
                /\ ~KeyOccurs(df1.data[i], df2, KeyColumns))
            => IsReturned(df1, i, ret[1])

\* C4: find_unmatched_entries is symmetric: if find_unmatched_entries(A, B)
\* = (X, Y) then find_unmatched_entries(B, A) = (Y, X); stated for non-empty
\* bank/GL tables A and B.
C4_Symmetric ==
    (Returned("find_unmatched_entries") /\ BankTables) =>
        LET swapped == find_unmatched_entries(df2, df1)
        IN /\ swapped.error = "none"
           /\ swapped.ret = <<ret[2], ret[1]>>

\* C5: row identity is the key column set passed by the caller:
\* reconcile_ar gets from find_unmatched_entries(ar, gl_ar,
\* ['invoice_id','amount']) the rows unmatched on exactly (invoice_id,
\* amount) and from detect_duplicates(ar, ['invoice_id']) the rows whose
\* invoice_id occurs more than once.
C5_CallerKeys ==
    (/\ call.op = "reconcile_ar"
     /\ ~Empty(df1) /\ ~Empty(df2)
     /\ {"invoice_id", "amount"} \subseteq df1.columns
     /\ {"invoice_id", "amount"} \subseteq df2.columns) =>
        /\ error = "none"
        /\ Len(ret) = 4
        /\ \A i \in Positions(df1) :
              /\ IsReturned(df1, i, ret[1])
                   <=> ~KeyOccurs(df1.data[i], df2, {"invoice_id", "amount"})
              /\ IsReturned(df1, i, ret[3])
                   <=> GroupSize(df1, i, {"invoice_id"}) >= 2
        /\ \A i \in Positions(df2) :
              /\ IsReturned(df2, i, ret[2])
                   <=> ~KeyOccurs(df2.data[i], df1, {"invoice_id", "amount"})
              /\ IsReturned(df2, i, ret[4])
                   <=> GroupSize(df2, i, {"invoice_id"}) >= 2

\* C6: detect_duplicates returns a row if and only if its key-tuple
\* (txn_date, txn_amount, txn_description) occurs in at least two rows of
\* the table: all rows of such a group, no row of a group of size 1, each
\* row once; an empty table yields an empty result.
C6_DuplicatesIff ==
    Returned("detect_duplicates") =>
        LET table == Arg(call.arg)
            out == ret[1]
        IN /\ \A i \in Positions(table) :
                 IsReturned(table, i, out) <=> GroupSize(table, i, KeyColumns) >= 2
           /\ \A k \in Positions(out) : IsRowOf(out, k, table)
           /\ Cardinality(Labels(out)) = Len(out.index)
           /\ Empty(table) => Empty(out)

C6_Witness ==
    /\ Returned("detect_duplicates")
    /\ Len(ret[1].index) = 2
    /\ GroupSize(Arg(call.arg), 1, KeyColumns) = 2

\* C7: every table returned by the four primitives is a row-subset of one
\* input table with exactly the same column set as that input (no column
\* added, none removed), the empty-result case included; stated for calls
\* on non-empty tables.
C7_RowSubsetSameColumns ==
    (call.op \in Primitives /\ error = "none" /\ ~Empty(df1) /\ ~Empty(df2)) =>
        \A t \in 1..Len(ret) :
            LET input == IF call.op = "find_unmatched_entries"
                         THEN Arg(t) ELSE Arg(call.arg)
            IN /\ ret[t].columns = input.columns
               /\ \A k \in Positions(ret[t]) :
                     \E i \in Positions(input) :
                         /\ input.index[i] = ret[t].index[k]
                         /\ input.data[i] = ret[t].data[k]

\* C8: no primitive changes its input tables: after any call each input
\* table has the same rows, row order, columns and values as before.
C8_InputsUnchanged == [][df1' = df1 /\ df2' = df2]_vars

C8_Witness ==
    /\ Returned("find_unmatched_entries")
    /\ BankTables
    /\ SourceColumn \in ret[1].columns
    /\ SourceColumn \notin df1.columns

\* C9: find_unmatched_entries returns two empty tables and raises no error
\* whenever at least one of the two input tables is empty.
C9_EmptyInput ==
    (call.op = "find_unmatched_entries" /\ (Empty(df1) \/ Empty(df2))) =>
        /\ error = "none"
        /\ Len(ret) = 2
        /\ Empty(ret[1])
        /\ Empty(ret[2])

C9_Witness ==
    /\ call.op = "find_unmatched_entries"
    /\ Empty(df1)
    /\ ~Empty(df2)
    /\ HasKeyColumns(df2)
    /\ error = "none"

\* C10: for every input table that lacks a required key column (txn_date,
\* txn_amount or txn_description), find_unmatched_entries and
\* detect_duplicates fail with an error and return no result table; stated
\* for tables with at least one row.
C10_MissingKeyColumnFails ==
    /\ (call.op = "find_unmatched_entries"
          /\ Len(df1.index) > 0 /\ Len(df2.index) > 0
          /\ (~HasKeyColumns(df1) \/ ~HasKeyColumns(df2)))
       => (error # "none" /\ ret = <<>>)
    /\ (call.op = "detect_duplicates"
          /\ Len(Arg(call.arg).index) > 0 /\ ~HasKeyColumns(Arg(call.arg)))
       => (error # "none" /\ ret = <<>>)

(***************************************************************************)
(* Properties of detect_outliers_zscore (runs of SpecZscore).              *)
(***************************************************************************)
ZscoreReturned == Returned("detect_outliers_zscore") /\ call.arg = 1

RECURSIVE SumOf(_, _)
SumOf(f, S) ==
    IF S = {} THEN 0
    ELSE LET x == CHOOSE y \in S : TRUE IN f[x] + SumOf(f, S \ {x})

\* Positions of table whose cell in column c is not missing.
NonMissing(table, c) == { i \in Positions(table) : table.data[i][c] # <<>> }

\* n * (value - mean) for each non-missing value of column c.
Deviations(table, c) ==
    LET P == NonMissing(table, c)
        total == SumOf([j \in P |-> table.data[j][c][1]], P)
    IN [j \in P |-> Cardinality(P) * table.data[j][c][1] - total]

\* |value - mean| / s > num/den for row i, s being the sample standard
\* deviation of the non-missing values: with D = n * (value - mean),
\* z^2 = D_i^2 * (n - 1) / sum of D_j^2.
ExceedsThreshold(table, c, i, t) ==
    LET P == NonMissing(table, c)
        D == Deviations(table, c)
        M == SumOf([j \in P |-> D[j] * D[j]], P)
    IN /\ i \in P
       /\ Cardinality(P) >= 2
       /\ M > 0
       /\ D[i] * D[i] * (Cardinality(P) - 1) * t.den * t.den > t.num * t.num * M

\* C11: detect_outliers_zscore returns a row exactly when its amount is
\* present, at least two amounts are present, their sample standard
\* deviation s (divisor n - 1) is positive and |value - mean| / s exceeds
\* the threshold strictly.
C11_ZscoreIff ==
    ZscoreReturned =>
        \A i \in Positions(df1) :
            IsReturned(df1, i, ret[1])
                <=> ExceedsThreshold(df1, call.amount_column, i, call.threshold)

\* A value exactly at the threshold is kept out while another row is returned.
C11_Witness ==
    /\ ZscoreReturned
    /\ Len(ret[1].index) = 1
    /\ \E i \in NonMissing(df1, call.amount_column) :
          LET D == Deviations(df1, call.amount_column)
              P == NonMissing(df1, call.amount_column)
              M == SumOf([j \in P |-> D[j] * D[j]], P)
          IN /\ M > 0
             /\ D[i] * D[i] * (Cardinality(P) - 1) * call.threshold.den * call.threshold.den
                    = call.threshold.num * call.threshold.num * M

OutliersWithoutMissing(table, c, t) ==
    LET P == NonMissing(table, c)
        kept == [columns |-> table.columns,
                 index |-> SelectSeq2(table.index, [i \in Positions(table) |-> i \in P], 1),
                 data |-> SelectSeq2(table.data, [i \in Positions(table) |-> i \in P], 1)]
    IN { kept.index[k] : k \in { k \in Positions(kept) : ExceedsThreshold(kept, c, k, t) } }

\* C13: a row whose amount is missing is never returned by
\* detect_outliers_zscore, and the rows returned are those returned for the
\* table with the missing-amount rows removed.
C13_MissingSkipped ==
    ZscoreReturned =>
        /\ \A k \in Positions(ret[1]) : ret[1].data[k][call.amount_column] # <<>>
        /\ Labels(ret[1])
               = OutliersWithoutMissing(df1, call.amount_column, call.threshold)

\* A table with a missing amount and a returned outlier.
C13_Witness ==
    /\ ZscoreReturned
    /\ NonMissing(df1, call.amount_column) # Positions(df1)
    /\ Len(ret[1].index) >= 1

(***************************************************************************)
(* Order of the returned rows (runs of Spec).                              *)
(***************************************************************************)
\* Position in table of the row labelled l (labels of an input are unique).
PositionOf(table, l) == CHOOSE i \in Positions(table) : table.index[i] = l

\* out lists rows of table in the order in which table lists them.
IsSubsequenceOf(out, table) ==
    /\ \A k \in Positions(out) : IsRowOf(out, k, table)
    /\ \A k, l \in Positions(out) :
          k < l => PositionOf(table, out.index[k]) < PositionOf(table, out.index[l])

\* C15: the rows returned by find_unmatched_entries (for each side),
\* detect_duplicates and detect_outliers_zscore are rows of the input, in
\* the input's order (an order-preserving subsequence; rows are compared on
\* the input's columns).
C15_OrderPreserved ==
    /\ Returned("find_unmatched_entries") =>
          IsSubsequenceOf(ret[1], df1) /\ IsSubsequenceOf(ret[2], df2)
    /\ Returned("detect_duplicates") => IsSubsequenceOf(ret[1], Arg(call.arg))
    /\ Returned("detect_outliers_zscore") => IsSubsequenceOf(ret[1], Arg(call.arg))

\* find_unmatched_entries returns two rows of its first table.
C15_Witness ==
    /\ Returned("find_unmatched_entries")
    /\ ~Empty(df2)
    /\ Len(ret[1].index) >= 2

(***************************************************************************)
(* Properties of the bank reconciliation functions (runs of SpecBank):     *)
(* df1 is the GL transactions table, df2 the bank statement.               *)
(***************************************************************************)
Called(op) == call.op = op

\* Sum of the non-missing amounts of table.
AmountTotal(table) ==
    LET P == NonMissing(table, "txn_amount")
    IN SumOf([j \in P |-> table.data[j]["txn_amount"][1]], P)

\* The check number of a returned row (the merge names the GL column
\* check_num_x).
CheckNumOf(row) ==
    IF "check_num_x" \in DOMAIN row THEN row["check_num_x"]
    ELSE IF "check_num" \in DOMAIN row THEN row["check_num"] ELSE <<>>

\* The GL rows with a check number whose key-tuple occurs in no row of the
\* bank statement, in GL order.
UnclearedChecks ==
    LET Uncleared(row) == row["check_num"] # <<>> /\ ~KeyOccurs(row, df2, KeyColumns)
    IN SelectSeq(df1.data, Uncleared)

\* C16: identify_outstanding_items returns as outstanding_checks exactly
\* the GL rows that have a check number and whose (txn_date, txn_amount,
\* txn_description) occurs in no bank statement row, each once, and for
\* two empty tables all four returned tables are empty.
C16_OutstandingChecks ==
    Called("identify_outstanding_items") =>
        /\ error = "none"
        /\ Len(ret[1].data) = Len(UnclearedChecks)
        /\ \A k \in 1..Len(UnclearedChecks) :
              /\ EqualOn(ret[1].data[k], UnclearedChecks[k], KeyColumns)
              /\ CheckNumOf(ret[1].data[k]) = UnclearedChecks[k]["check_num"]
        /\ (Len(df1.index) = 0 /\ Len(df2.index) = 0) =>
              \A k \in 1..4 : Len(ret[k].index) = 0

\* C17: compare_balances returns the sums of txn_amount as balances,
\* balance_difference = gl_balance - bank_stmt_balance, adjusted_balance =
\* gl_balance - (sum of txn_amount over the four outstanding tables), and
\* is_reconciled exactly when |adjusted_balance - bank_stmt_balance| is
\* within 1e-6 (zero, for whole amounts).
C17_Balances ==
    Called("compare_balances") =>
        /\ error = "none"
        /\ LET r == ret[1]
               outstanding ==
                   SumOf([k \in 1..4 |-> AmountTotal(r.outstanding_items[k])], 1..4)
           IN /\ r.bank_stmt_balance = AmountTotal(df2)
              /\ r.gl_balance = AmountTotal(df1)
              /\ r.balance_difference = AmountTotal(df1) - AmountTotal(df2)
              /\ r.adjusted_balance = AmountTotal(df1) - outstanding
              /\ r.is_reconciled <=> (AmountTotal(df1) - outstanding = AmountTotal(df2))

\* C18: compare_balances on a non-empty five-column table taken as both the
\* bank statement and the GL (duplicate rows allowed) reports is_reconciled,
\* balance_difference 0 and four empty outstanding tables.
C18_SelfReconciles ==
    (Called("compare_balances") /\ df1 = df2 /\ Len(df1.index) > 0) =>
        /\ error = "none"
        /\ ret[1].is_reconciled
        /\ ret[1].balance_difference = 0
        /\ \A k \in 1..4 : Len(ret[1].outstanding_items[k].index) = 0

\* A table of two equal ACH rows compared with itself.
C18_Witness ==
    /\ Called("compare_balances")
    /\ error = "none"
    /\ df1 = df2
    /\ Len(df1.index) = 2
    /\ df1.data[1] = df1.data[2]
    /\ df1.data[1]["txn_type"] = <<"ach">>
    /\ ret[1].is_reconciled

\* C19: analyze_transaction_patterns returns a GL row in
\* same_day_same_amount exactly when another GL row has the same txn_date
\* and txn_amount, and in round_amounts exactly when its txn_amount is a
\* multiple of 100; for an empty GL table both are empty.
C19_Patterns ==
    (Called("analyze_transaction_patterns") /\ error = "none") =>
        /\ Len(df1.index) = 0 => Len(ret[1].index) = 0 /\ Len(ret[2].index) = 0
        /\ \A i \in Positions(df1) :
              /\ IsReturned(df1, i, ret[1])
                    <=> \E j \in Positions(df1) \ {i} :
                           EqualOn(df1.data[i], df1.data[j], {"txn_date", "txn_amount"})
              /\ IsReturned(df1, i, ret[2])
                    <=> \E m \in -100..100 : df1.data[i]["txn_amount"] = <<100 * m>>

\* Two rows of one day and amount, the amount not a multiple of 100.
C19_Witness ==
    /\ Called("analyze_transaction_patterns")
    /\ error = "none"
    /\ Len(ret[1].index) = 2
    /\ Len(ret[2].index) = 0

(***************************************************************************)
(* Date-dependent aggregations (runs of SpecAging): two calls of           *)
(* analyze_ap_aging on equal tables.                                       *)
(***************************************************************************)
BothAgingCallsDone ==
    call # NoCall /\ call.op = "analyze_ap_aging" /\ Len(call.args) = 2 /\ error = "none"

\* C20: a date-dependent aggregation is a function of its arguments only:
\* two calls of analyze_ap_aging on equal tables put the same rows in each
\* aging bucket and report the same totals, whatever the wall clock shows
\* at each call.
C20_FunctionOfArguments ==
    BothAgingCallsDone =>
        /\ \A b \in 1..4 :
              Labels(ret[1].aging_buckets[b]) = Labels(ret[2].aging_buckets[b])
        /\ ret[1].aging_totals = ret[2].aging_totals
        /\ ret[1].total_outstanding = ret[2].total_outstanding

(***************************************************************************)
(* Orchestration (runs of SpecMain): call.started lists the domains whose  *)
(* reconcile has been called, ret the results returned so far.             *)
(***************************************************************************)
DomainOrder ==
    <<"bank", "cash_equivalents", "inventory", "ar", "ap", "fixed_assets",
      "prepaid", "accrued">>

\* The domains of DomainOrder the entry point runs (main runs all of them).
ExpectedOrder ==
    IF call.op = "main" THEN DomainOrder ELSE SubSeq(DomainOrder, 2, Len(DomainOrder))

ReturnedDomains == [k \in 1..Len(ret) |-> ret[k].domain]

\* C21: main runs the domains in the order bank, cash equivalents,
\* inventory, AR, AP, fixed assets, prepaid, accrued, each started only
\* after the previous ones have returned; the report is printed and a
\* results dictionary returned only after every domain has returned; after
\* an error no result is delivered, the failing domain is the last one
\* started and nothing runs any more; and when the files of every domain
\* can be loaded, a run that has stopped has run every domain.
C21_OrderAndFailure ==
    /\ call.started = SubSeq(ExpectedOrder, 1, Len(call.started))
    /\ Len(call.started) - Len(ret) \in {0, 1}
    /\ ReturnedDomains = SubSeq(call.started, 1, Len(ret))
    /\ call.pc \in {"printed", "returned"} =>
          error = "none" /\ ReturnedDomains = ExpectedOrder
    /\ error # "none" =>
          /\ call.pc = "raised"
          /\ Len(ret) = Len(call.started) - 1
          /\ ~ ENABLED NextMain
    /\ (~ ENABLED NextMain /\ \A d \in DOMAIN df1 : df1[d] = "ok") =>
          call.pc \in {"printed", "returned"}

(***************************************************************************)
(* Outstanding items (runs of SpecOutstanding).                            *)
(***************************************************************************)
\* The four tables identify_outstanding_items returned, also when
\* compare_balances made the call.
Items == IF Called("compare_balances") THEN ret[1].outstanding_items ELSE ret

\* GL row i is one of the returned outstanding checks (the merge renumbers
\* the rows, so the row is recognised by its key and check number).
IsOutstandingCheck(i) ==
    \E k \in Positions(Items[1]) :
        /\ EqualOn(Items[1].data[k], df1.data[i], KeyColumns)
        /\ CheckNumOf(Items[1].data[k]) = df1.data[i]["check_num"]
        /\ df1.data[i]["check_num"] # <<>>

\* Number of the four tables that list GL row i, and bank row j.
TimesListedGL(i) ==
    (IF IsOutstandingCheck(i) THEN 1 ELSE 0)
    + (IF IsReturned(df1, i, Items[2]) THEN 1 ELSE 0)
    + (IF IsReturned(df1, i, Items[3]) THEN 1 ELSE 0)

\* The rows not listed as outstanding, as key-tuples.
SettledGL == { i \in Positions(df1) : TimesListedGL(i) = 0 }

SettledBank == { j \in Positions(df2) : ~IsReturned(df2, j, Items[4]) }

\* The settled rows of the two tables match one to one on the key columns.
SettledRowsMatch ==
    /\ \A i \in SettledGL :
          Cardinality({ x \in SettledGL : EqualOn(df1.data[x], df1.data[i], KeyColumns) })
              = Cardinality({ y \in SettledBank :
                                EqualOn(df2.data[y], df1.data[i], KeyColumns) })
    /\ \A j \in SettledBank :
          \E i \in SettledGL : EqualOn(df1.data[i], df2.data[j], KeyColumns)

\* C22: when the GL and the bank statement differ only by rows that
\* identify_outstanding_items lists as outstanding (every other row matches
\* one to one), compare_balances reports is_reconciled (checked for
\* non-empty GL tables).
C22_OutstandingExplainsDifference ==
    (/\ Called("compare_balances")
     /\ error = "none"
     /\ Len(df1.index) > 0
     /\ SettledRowsMatch) => ret[1].is_reconciled

\* C23: identify_outstanding_items lists every GL row of type 'ach'
\* ('deposit') whose key-tuple occurs in no bank row in ach_in_transit
\* (deposits_in_transit), and every bank row whose description contains
\* 'fee' and whose key-tuple occurs in no GL row in service_fees.
C23_TupleUnmatchedListed ==
    (Called("identify_outstanding_items") /\ error = "none") =>
        /\ \A i \in Positions(df1) :
              ~KeyOccurs(df1.data[i], df2, KeyColumns) =>
                  /\ df1.data[i]["txn_type"] = <<"ach">> => IsReturned(df1, i, ret[2])
                  /\ df1.data[i]["txn_type"] = <<"deposit">> => IsReturned(df1, i, ret[3])
        /\ \A j \in Positions(df2) :
              (/\ df2.data[j]["txn_description"] = <<"Service Fee">>
               /\ ~KeyOccurs(df2.data[j], df1, KeyColumns))
                  => IsReturned(df2, j, ret[4])

\* C24: every GL row is listed in at most one of outstanding_checks,
\* ach_in_transit and deposits_in_transit (service_fees lists bank rows
\* only), so outstanding_total counts a row's amount at most once.
C24_AtMostOneSet ==
    (Called("identify_outstanding_items") /\ error = "none") =>
        \A i \in Positions(df1) : TimesListedGL(i) <= 1

(***************************************************************************)
(* Reordered inputs (runs of SpecPermuted).                                *)
(***************************************************************************)
\* Number of rows of table that equal row on the key columns.
Occurrences(row, table) ==
    Cardinality({ i \in Positions(table) : EqualOn(table.data[i], row, KeyColumns) })

\* Two tables hold the same rows, each as often (whatever the order).
SameRows(t1, t2) ==
    /\ Len(t1.data) = Len(t2.data)
    /\ \A i \in Positions(t1) : Occurrences(t1.data[i], t1) = Occurrences(t1.data[i], t2)

\* C25: for non-empty A and B, find_unmatched_entries returns the same rows
\* of A in only_in_df1 and the same rows of B in only_in_df2 when the rows
\* of A or of B are given in another order (re-indexed 0..n-1).
C25_OrderIndependent ==
    (/\ Called("find_unmatched_entries_permuted")
     /\ error = "none"
     /\ ~Empty(df1)
     /\ ~Empty(df2)) =>
        /\ SameRows(ret[1], ret[3])
        /\ SameRows(ret[2], ret[4])

(***************************************************************************)
(* Small samples (runs of SpecSample).                                     *)
(***************************************************************************)
\* C26: with the default threshold 3.0 detect_outliers_zscore returns no
\* row for a table with at most 10 non-missing amounts.
C26_SmallSampleNoOutlier ==
    (/\ ZscoreReturned
     /\ call.threshold = [num |-> 3, den |-> 1]
     /\ Cardinality(NonMissing(df1, call.amount_column)) <= 10) =>
        Len(ret[1].index) = 0

\* Ten amounts, nine equal and one far from them, at the default threshold.
C26_Witness ==
    /\ ZscoreReturned
    /\ call.threshold = [num |-> 3, den |-> 1]
    /\ Len(df1.index) = 10
    /\ Cardinality({ i \in Positions(df1) : df1.data[i]["txn_amount"] = <<50>> }) = 1
    /\ Len(ret[1].index) = 0

(***************************************************************************)
(* Transaction dates (runs of SpecDates): df1 is the GL, df2 the bank      *)
(* statement, ret[1] the table same_amount_different_dates.                *)
(***************************************************************************)
\* Row k of the reported table shows GL row i next to bank row j.
Reports(k, i, j) ==
    LET row == ret[1].data[k]
    IN /\ row["txn_amount"] = df1.data[i]["txn_amount"]
       /\ row["txn_amount"] = df2.data[j]["txn_amount"]
       /\ row["txn_date"] = df1.data[i]["txn_date"]
       /\ row["txn_description_gl"] = df1.data[i]["txn_description"]
       /\ row["txn_description_bank"] = df2.data[j]["txn_description"]

\* C27: every row of same_amount_different_dates shows a GL transaction
\* next to a bank transaction of the same amount and another date, and no
\* row shows a GL and a bank transaction of equal amount and equal date.
C27_DifferentDates ==
    (Called("analyze_transaction_dates") /\ error = "none") =>
        /\ \A k \in Positions(ret[1]) :
              \E i \in Positions(df1), j \in Positions(df2) :
                  Reports(k, i, j) /\ df1.data[i]["txn_date"] # df2.data[j]["txn_date"]
        /\ \A k \in Positions(ret[1]), i \in Positions(df1), j \in Positions(df2) :
              Reports(k, i, j) => df1.data[i]["txn_date"] # df2.data[j]["txn_date"]

(***************************************************************************)
(* Aging buckets (runs of SpecBuckets): one call of analyze_ap_aging on    *)
(* df1 or of analyze_ar_aging on df2; ret[1] is its result.                *)
(***************************************************************************)
AgingDone ==
    call # NoCall /\ call.op \in {"analyze_ap_aging", "analyze_ar_aging"} /\ error = "none"

AgedTable == IF call.op = "analyze_ap_aging" THEN df1 ELSE df2

HasDate(i) == AgedTable.data[i]["date"] # <<>>

\* The bracket of a number of days outstanding: 1 for up to 30 days, 2 for
\* 31 to 60, 3 for 61 to 90, 4 for more than 90.
BracketOf(days) ==
    IF days <= 30 THEN 1 ELSE IF days <= 60 THEN 2 ELSE IF days <= 90 THEN 3 ELSE 4

\* How many rows of bucket b carry the label of row i of the aged table.
TimesInBucket(i, b) ==
    Cardinality({ k \in 1..Len(ret[1].aging_buckets[b].index) :
                    ret[1].aging_buckets[b].index[k] = AgedTable.index[i] })

RECURSIVE DatedAmount(_)
DatedAmount(k) ==
    IF k = 0 THEN 0
    ELSE DatedAmount(k - 1)
         + (IF HasDate(k) /\ AgedTable.data[k]["amount"] # <<>>
            THEN AgedTable.data[k]["amount"][1] ELSE 0)

BucketTotals ==
    ret[1].aging_totals[1] + ret[1].aging_totals[2]
        + ret[1].aging_totals[3] + ret[1].aging_totals[4]

EachDatedRowInItsBucket ==
    \A i \in 1..Len(AgedTable.data) :
        HasDate(i) =>
            \A b \in 1..4 :
                TimesInBucket(i, b)
                    = (IF b = BracketOf(call.now - AgedTable.data[i]["date"][1])
                       THEN 1 ELSE 0)

\* C28 (as the code has it): every row with a date is in exactly one aging
\* bucket, the one of its days outstanding, a row without a date is in no
\* bucket, and the four aging totals add up to the amounts of the rows
\* that have a date.
C28_DatedRowsPartitioned ==
    AgingDone =>
        /\ EachDatedRowInItsBucket
        /\ \A i \in 1..Len(AgedTable.data) :
              ~HasDate(i) => \A b \in 1..4 : TimesInBucket(i, b) = 0
        /\ BucketTotals = DatedAmount(Len(AgedTable.data))

\* C28 (as stated): every row with a date is in exactly one aging bucket
\* and the four aging totals add up to total_outstanding.
C28_TotalsSumToTotal ==
    AgingDone =>
        /\ EachDatedRowInItsBucket
        /\ BucketTotals = ret[1].total_outstanding

\* A receivables table with a row on the 60-day boundary and a row without
\* a date has been aged.
C28_Witness ==
    /\ AgingDone
    /\ call.op = "analyze_ar_aging"
    /\ \E i, j \in 1..Len(AgedTable.data) :
          /\ HasDate(i)
          /\ call.now - AgedTable.data[i]["date"][1] = 60
          /\ ~HasDate(j)

(***************************************************************************)
(* Chunked loading (runs of SpecChunks): df1 is the file, ret[1] the table *)
(* loaded with call.chunk_size, ret[2] the table loaded as one chunk.      *)
(***************************************************************************)
\* The text a parsed cell was read from is x.
Renders(cell, x) ==
    IF x = "" THEN cell = <<>>
    ELSE /\ cell # <<>>
         /\ \/ cell[1].t = "int" /\ x \in Numerals /\ cell[1].n = NumOf(x)
            \/ cell[1].t = "str" /\ cell[1].s = x
            \/ cell[1].t = "date" /\ cell[1].n = DayOf(x)

\* The file line matches the call's filters.
Selected(line) ==
    /\ line["bank_account_id"] \in Numerals
    /\ NumOf(line["bank_account_id"]) = call.bank_account_id
    /\ line["client_id"] \in Numerals
    /\ NumOf(line["client_id"]) = call.client_id
    /\ call.start_date # <<>> =>
          line["txn_date"] # "" /\ DayOf(line["txn_date"]) >= call.start_date[1]
    /\ call.end_date # <<>> =>
          line["txn_date"] # "" /\ DayOf(line["txn_date"]) <= call.end_date[1]

RECURSIVE SelectedLines(_)
SelectedLines(k) ==
    IF k = 0 THEN <<>>
    ELSE SelectedLines(k - 1) \o (IF Selected(df1[k]) THEN <<df1[k]>> ELSE <<>>)

\* C29: for every chunk size the loaded table holds exactly the file's
\* lines that match the account, the client and the date range, each once
\* and in file order, and it is the table loaded from the file as a single
\* chunk.
C29_ChunkedEqualsUnchunked ==
    (Called("get_gl_transactions") /\ error = "none") =>
        LET expected == SelectedLines(Len(df1))
        IN /\ Len(ret[1].data) = Len(expected)
           /\ \A k \in 1..Len(ret[1].data) :
                 Len(expected) >= k =>
                     \A c \in FileColumns : Renders(ret[1].data[k][c], expected[k][c])
           /\ ret[1] = ret[2]

(***************************************************************************)
(* Fixed-asset roll-forward (runs of SpecAssets): ret[1] is the result of  *)
(* reconcile_fixed_assets.                                                 *)
(***************************************************************************)
\* C30: reconcile_fixed_assets, called with start_date <= end_date, returns
\* figures that tie: ending_balance = beginning_balance + additions +
\* disposals + retirements + sales of the period.
C30_RollForwardTies ==
    (Called("reconcile_fixed_assets") /\ call.start_date <= call.end_date) =>
        /\ error = "none"
        /\ ret[1].ending_balance
              = ret[1].beginning_balance
                + ret[1].movement_analysis.totals.additions
                + ret[1].movement_analysis.totals.disposals
                + ret[1].movement_analysis.totals.retirements
                + ret[1].movement_analysis.totals.sales

====
